---------------------------- MODULE Spec2Model ----------------------------
(***************************************************************************)
(* A model of wplace-compress.ts (src/scripts and src/compress.ts): the    *)
(* two-tier codec (rowsToV1, v1ToV2IfPossible, compactFromRows,            *)
(* expandCompact, queryOneCompact), the single-file commands built on it,  *)
(* and the bounded worker pool runWithLimit.                               *)
(*                                                                         *)
(* JavaScript values are modelled as follows.  A RawRow is a record whose  *)
(* DOMAIN holds the properties the JSON line carried; a property that is   *)
(* absent reads as Undefined.  A blob is a record too, and the shape tests *)
(* isV1 / isV2 look for the field "e" / "seq" in its DOMAIN.  Numbers are  *)
(* integers, plus the value NaN that Number("undefined") yields.  A        *)
(* template-string key `${a}|${b}|${c}` is the tuple <<a, b, c>>: the      *)
(* first and last parts of the group key and all parts of the bucket key   *)
(* are numbers, whose text never holds "|", so the text decides the tuple. *)
(***************************************************************************)
EXTENDS Integers, Sequences, FiniteSets, TLC

VARIABLES
    rows,       \* the records of the input .jsonl file, in file order
    stride,     \* preferS, the stride handed to compactFromRows
    v1s,        \* the Tier-1 blobs rowsToV1 built inside compactFromRows
    payload,    \* the compact document written by the compress command
    expanded,   \* the records written by the decompress command
    query,      \* the last point query and its result
    phase,      \* "input", "compressed", "expanded" or "failed"
    items,      \* runWithLimit: the number of items (files) of the batch
    failing,    \* runWithLimit: the item indexes on which fn rejects
    limit,      \* runWithLimit: the concurrency limit asked for
    cursor,     \* runWithLimit: the shared dispatch cursor i
    spawned,    \* runWithLimit: how many workers the spawn loop has started
    wpc,        \* runWithLimit: per worker, "idle", "awaiting" or "done"
    widx,       \* runWithLimit: per worker, the item index it is awaiting
    calls,      \* runWithLimit: per item index, how often fn was called on it
    logged,     \* runWithLimit: the item indexes whose failure was logged
    settled     \* runWithLimit: TRUE once Promise.all(workers) has resolved

codecVars == <<rows, stride, v1s, payload, expanded, query, phase>>
poolVars == <<items, failing, limit, cursor, spawned, wpc, widx, calls, logged, settled>>
vars == <<rows, stride, v1s, payload, expanded, query, phase,
          items, failing, limit, cursor, spawned, wpc, widx, calls, logged, settled>>

---------------------------------------------------------------------------
(* Bounds of the model.                                                    *)

MaxRows == 3        \* longest input file, in records (record-sequence inputs)
MaxId == 2          \* place ids 1..MaxId (record-sequence inputs)
MaxX == 1           \* tile columns 0..MaxX (record-sequence inputs)
MaxSeqY == 1        \* tile rows 0..MaxSeqY (record-sequence inputs)
MaxStride == 2      \* strides 1..MaxStride
MaxId0 == 3         \* first place id of a progression (progression inputs)
MaxX0 == 3          \* first column of a progression (progression inputs)
MaxK == 2           \* longest progression, in strips
MaxWidth == 2       \* widest strip, in columns
MaxY == 1           \* tile rows 0..MaxY (progression inputs)
MaxItems == 3       \* longest batch handed to runWithLimit
MaxLimit == 3       \* largest concurrency limit
MaxBlobs == 2       \* longest document read from disk, in blobs
MaxBadRows == 2     \* longest input file with rows that may lack a property

---------------------------------------------------------------------------
(* JavaScript values.                                                      *)

\* The value of a property the object does not have (r.id at line 109).
Undefined == -1000001

\* Number("undefined") at line 120.
NaN == -1000002

\* The absent result: null (lines 180, 317).
Null == [null |-> TRUE]

\* The null that JSON.stringify writes for NaN (line 326) and JSON.parse
\* reads back (line 332).
JsonNull == -1000003

\* ToNumber as arithmetic applies it: null counts as 0.
ToNumber(a) == IF a = JsonNull THEN 0 ELSE a

\* a - b on numbers, NaN if either is NaN (the comparators' a.id - b.id).
Minus(a, b) == IF a = NaN \/ b = NaN THEN NaN ELSE ToNumber(a) - ToNumber(b)

\* a + b on numbers, NaN if either is NaN (prev.id + 1, r.id0 + i).
Plus(a, b) == IF a = NaN \/ b = NaN THEN NaN ELSE ToNumber(a) + ToNumber(b)

\* a === b on numbers: NaN equals nothing, itself included.
StrictEq(a, b) == a # NaN /\ b # NaN /\ a = b

\* Truthiness of a number, as the || chains of the comparators test it.
Truthy(a) == a # 0 /\ a # NaN

\* The largest element of a non-empty set of integers.
MaxOf(S) == CHOOSE m \in S : \A k \in S : k <= m

\* The smallest element of a non-empty set of integers.
MinOf(S) == CHOOSE m \in S : \A k \in S : m <= k

\* Array.prototype.sort: a stable sort of s by a comparator given as the
\* function cmp[i, j] = comparator(s[i], s[j]); a NaN result counts as +0.
\* Element k is inserted after the last element already placed that does
\* not compare greater, which is the stable order for any consistent
\* comparator.
StableSort(s, cmp) ==
    LET n == Len(s)
        ord[k \in 0..n] ==
            IF k = 0 THEN << >>
            ELSE LET before == ord[k - 1]
                     le == {p \in 1..(k - 1) :
                              ~Truthy(cmp[before[p], k]) \/ cmp[before[p], k] < 0}
                     at == IF le = {} THEN 0 ELSE MaxOf(le)
                 IN  [j \in 1..k |-> IF j <= at THEN before[j]
                                     ELSE IF j = at + 1 THEN k
                                     ELSE before[j - 1]]
    IN  [j \in 1..n |-> s[ord[n][j]]]

\* The elements of all sequences of ss, in order (rows.push / entries.push
\* over nested loops).
Concat(ss) ==
    LET acc[k \in 0..Len(ss)] ==
            IF k = 0 THEN << >> ELSE acc[k - 1] \o ss[k]
    IN  acc[Len(ss)]

\* The keys of a Map in iteration order: each key once, in the order of its
\* first insertion.
InsertionOrder(keys) ==
    LET acc[k \in 0..Len(keys)] ==
            IF k = 0 THEN << >>
            ELSE IF \E j \in 1..Len(acc[k - 1]) : acc[k - 1][j] = keys[k]
                 THEN acc[k - 1]
                 ELSE Append(acc[k - 1], keys[k])
    IN  acc[Len(keys)]

\* The collation key that String.prototype.localeCompare orders by:
\* canonically equivalent strings share it.  The group names of the model
\* are "A", "Enfc" and "Enfd"; the last two stand for two spellings of one
\* name that are canonically equivalent (a precomposed letter, and its base
\* letter followed by a combining mark): distinct strings, and so distinct
\* group keys.
CollationKey(name) ==
    CASE name = "A" -> 1
      [] name = "Enfc" -> 2
      [] name = "Enfd" -> 2

\* a.localeCompare(b): negative, zero or positive.  It is zero for
\* canonically equivalent strings, as ECMA-262 requires.
localeCompare(a, b) == CollationKey(a) - CollationKey(b)

---------------------------------------------------------------------------
(* Types.                                                                  *)

\* type RawRow
RawRow(id, cityId, name, number, countryId, tileX, tileY) ==
    [id |-> id, cityId |-> cityId, name |-> name, number |-> number,
     countryId |-> countryId, coord |-> [tileX |-> tileX, tileY |-> tileY]]

\* type V1Entry
V1Entry(id, n, y, xs, xe) == [id |-> id, n |-> n, y |-> y, xs |-> xs, xe |-> xe]

\* type V1Blob
V1Blob(c, n, id, e) == [c |-> c, n |-> n, id |-> id, e |-> e]

\* type V2Run
V2Run(x0, k, id0, n0) == [x0 |-> x0, k |-> k, id0 |-> id0, n0 |-> n0]

\* type V2Blob
V2Blob(c, n, id, y, s, seq) ==
    [c |-> c, n |-> n, id |-> id, y |-> y, s |-> s, seq |-> seq]

\* const isV2 = (x) => x && Array.isArray(x.seq)
isV2(x) == "seq" \in DOMAIN x

\* const isV1 = (x) => x && Array.isArray(x.e)
isV1(x) == "e" \in DOMAIN x

---------------------------------------------------------------------------
(* rowsToV1.                                                               *)

\* r.id: Undefined when the row has no id.
IdOf(r) == IF "id" \in DOMAIN r THEN r.id ELSE Undefined

\* Reading r.coord.tileY of a row without coord is a TypeError (line 109).
rowsToV1Throws(rs) == \E i \in 1..Len(rs) : "coord" \notin DOMAIN rs[i]

\* const metaKey = `${r.cityId}|${r.name}|${r.countryId}`
MetaKey(r) == <<r.cityId, r.name, r.countryId>>

\* const key = `${r.id}|${r.number}|${r.coord.tileY}`
BucketKey(r) == <<IdOf(r), r.number, r.coord.tileY>>

\* Number(str) of one part of a bucket key: "undefined" parses to NaN.
NumberOf(part) == IF part = Undefined THEN NaN ELSE part

\* xsArr.slice().sort((a, b) => a - b)
SortNumeric(xsArr) ==
    StableSort(xsArr, [i \in 1..Len(xsArr), j \in 1..Len(xsArr) |-> xsArr[i] - xsArr[j]])

\* The run-merging loop over one bucket (lines 123-137): a new entry starts
\* whenever the next column is not the previous one plus 1.
BucketEntries(rid, n, y, xsArr) ==
    LET xs == SortNumeric(xsArr)
        step[i \in 1..Len(xs)] ==
            IF i = 1 THEN [start |-> xs[1], prev |-> xs[1], out |-> << >>]
            ELSE LET m == step[i - 1]
                     cur == xs[i]
                 IN  IF cur = m.prev + 1
                     THEN [m EXCEPT !.prev = cur]
                     ELSE [start |-> cur, prev |-> cur,
                           out |-> Append(m.out, V1Entry(rid, n, y, m.start, m.prev))]
        fin == step[Len(xs)]
    IN  Append(fin.out, V1Entry(rid, n, y, fin.start, fin.prev))

\* (a, b) => a.id - b.id || a.n - b.n || a.y - b.y || a.xs - b.xs || a.xe - b.xe
EntryCmp(a, b) ==
    IF Truthy(Minus(a.id, b.id)) THEN Minus(a.id, b.id)
    ELSE IF a.n - b.n # 0 THEN a.n - b.n
    ELSE IF a.y - b.y # 0 THEN a.y - b.y
    ELSE IF a.xs - b.xs # 0 THEN a.xs - b.xs
    ELSE a.xe - b.xe

\* entries.sort(...) at line 139
SortEntries(es) ==
    StableSort(es, [i \in 1..Len(es), j \in 1..Len(es) |-> EntryCmp(es[i], es[j])])

\* (a, b) => a.c - b.c || a.id - b.id || a.n.localeCompare(b.n)
BlobCmp(a, b) ==
    IF a.c - b.c # 0 THEN a.c - b.c
    ELSE IF a.id - b.id # 0 THEN a.id - b.id
    ELSE localeCompare(a.n, b.n)

\* blobs.sort(...) at line 143
SortBlobs(bs) ==
    StableSort(bs, [i \in 1..Len(bs), j \in 1..Len(bs) |-> BlobCmp(bs[i], bs[j])])

\* The rows of rs whose index satisfies keep, in order.
RowsWhere(rs, keep) ==
    LET acc[k \in 0..Len(rs)] ==
            IF k = 0 THEN << >>
            ELSE IF keep[k] THEN Append(acc[k - 1], rs[k]) ELSE acc[k - 1]
    IN  acc[Len(rs)]

\* The blob of one group: its buckets in insertion order, each merged into
\* entries, the entries then sorted (lines 116-141).
GroupBlob(rs, metaKey) ==
    LET mine == RowsWhere(rs, [i \in 1..Len(rs) |-> MetaKey(rs[i]) = metaKey])
        keys == InsertionOrder([i \in 1..Len(mine) |-> BucketKey(mine[i])])
        xsArr(key) ==
            LET hit == RowsWhere(mine, [i \in 1..Len(mine) |-> BucketKey(mine[i]) = key])
            IN  [i \in 1..Len(hit) |-> hit[i].coord.tileX]
        entries == Concat([b \in 1..Len(keys) |->
                       BucketEntries(NumberOf(keys[b][1]), NumberOf(keys[b][2]),
                                     NumberOf(keys[b][3]), xsArr(keys[b]))])
    IN  V1Blob(metaKey[1], metaKey[2], metaKey[3], SortEntries(entries))

\* function rowsToV1(rows), for rows on which it does not throw.
rowsToV1(rs) ==
    LET metaKeys == InsertionOrder([i \in 1..Len(rs) |-> MetaKey(rs[i])])
    IN  SortBlobs([g \in 1..Len(metaKeys) |-> GroupBlob(rs, metaKeys[g])])

---------------------------------------------------------------------------
(* v1ToV2IfPossible and compactFromRows.                                   *)

\* es = v1.e.slice().sort((a, b) => a.xs - b.xs)
SortByXs(es) ==
    StableSort(es, [i \in 1..Len(es), j \in 1..Len(es) |-> es[i].xs - es[j].xs])

\* xsOK && idOK && nOK for two neighbours of the xs-sorted entries
\* (lines 167-169).
StepOK(prev, cur, s) ==
    /\ cur.xs = prev.xs + s
    /\ StrictEq(cur.id, Plus(prev.id, 1))
    /\ cur.n = prev.n + 1

\* The run-splitting walk over the xs-sorted entries (lines 155-175).
ProgressionRuns(es, s) ==
    LET flush(fromIdx, toIdx) ==
            V2Run(es[fromIdx].xs, toIdx - fromIdx + 1, es[fromIdx].id, es[fromIdx].n)
        walk[i \in 1..Len(es)] ==
            IF i = 1 THEN [runStartIdx |-> 1, runs |-> << >>]
            ELSE LET w == walk[i - 1]
                 IN  IF ~StepOK(es[i - 1], es[i], s)
                     THEN [runStartIdx |-> i,
                           runs |-> Append(w.runs, flush(w.runStartIdx, i - 1))]
                     ELSE w
        fin == walk[Len(es)]
    IN  Append(fin.runs, flush(fin.runStartIdx, Len(es)))

\* NotUniform without the width test.
NotUniformRowOnly(v1, s) == \E i \in 1..Len(v1.e) : v1.e[i].y # v1.e[1].y

\* The early returns of lines 150-153: some entry is on another row than
\* the first, or is not s columns wide.
NotUniform(v1, s) ==
    \E i \in 1..Len(v1.e) :
        \/ v1.e[i].y # v1.e[1].y
        \/ v1.e[i].xe - v1.e[i].xs + 1 # s

\* AcceptRuns without the halving: any run count up to the entry count.
AcceptRunsNoHalving(runCount, entryCount) == runCount = 1 \/ runCount <= entryCount

\* runs.length === 1 || runs.length * 2 <= v1.e.length
AcceptRuns(runCount, entryCount) == runCount = 1 \/ runCount * 2 <= entryCount

\* function v1ToV2IfPossible(v1, s)
v1ToV2IfPossible(v1, s) ==
    IF Len(v1.e) = 0 THEN V2Blob(v1.c, v1.n, v1.id, 0, s, << >>)
    ELSE IF NotUniform(v1, s) THEN Null
    ELSE LET runs == ProgressionRuns(SortByXs(v1.e), s)
         IN  IF AcceptRuns(Len(runs), Len(v1.e))
             THEN V2Blob(v1.c, v1.n, v1.id, v1.e[1].y, s, runs)
             ELSE Null

\* out.push(v2 ?? b) for one Tier-1 blob
PreferV2(b, s) ==
    LET v2 == v1ToV2IfPossible(b, s)
    IN  IF v2 # Null THEN v2 ELSE b

\* function compactFromRows(rows, preferS), given the blobs of rowsToV1(rows)
compactFromV1(blobs, preferS) == [i \in 1..Len(blobs) |-> PreferV2(blobs[i], preferS)]

\* function compactFromRows(rows, preferS)
compactFromRows(rs, preferS) == compactFromV1(rowsToV1(rs), preferS)

\* const payload = compact.length === 1 ? compact[0] : compact
\* A document is tagged with what Array.isArray answers for it.
PayloadOf(compact) ==
    IF Len(compact) = 1 THEN [single |-> compact[1]] ELSE [array |-> compact]

\* A number as JSON.stringify followed by JSON.parse gives it back.
ThroughJson(a) == IF a = NaN THEN JsonNull ELSE a

\* A blob of compactFromRows as the compressed file gives it back: the
\* file is JSON.stringify(payload), and of the blob's values only a NaN id
\* changes on the way.
BlobThroughJson(b) ==
    IF isV2(b)
    THEN [b EXCEPT !.seq = [r \in 1..Len(b.seq) |->
                               [b.seq[r] EXCEPT !.id0 = ThroughJson(b.seq[r].id0)]]]
    ELSE [b EXCEPT !.e = [i \in 1..Len(b.e) |->
                             [b.e[i] EXCEPT !.id = ThroughJson(b.e[i].id)]]]

\* const arr = Array.isArray(compact) ? compact : [compact]
ArrOf(compact) ==
    IF "array" \in DOMAIN compact THEN compact.array ELSE <<compact.single>>

---------------------------------------------------------------------------
(* expandCompact.                                                          *)

\* ExpandRun with the strips of a run one column apart instead of one
\* stride apart.
ExpandRunUnitStride(blob, r) ==
    Concat([i \in 1..r.k |->
              [j \in 1..blob.s |->
                 RawRow(Plus(r.id0, i - 1), blob.c, blob.n, r.n0 + (i - 1), blob.id,
                        r.x0 + (i - 1) + (j - 1), blob.y)]])

\* The rows of one Tier-2 run (lines 204-217).
ExpandRun(blob, r) ==
    Concat([i \in 1..r.k |->
              [j \in 1..blob.s |->
                 RawRow(Plus(r.id0, i - 1), blob.c, blob.n, r.n0 + (i - 1), blob.id,
                        r.x0 + (i - 1) * blob.s + (j - 1), blob.y)]])

\* The rows of one Tier-1 entry (lines 222-231).
ExpandEntry(blob, entry) ==
    [j \in 1..(entry.xe - entry.xs + 1) |->
        RawRow(entry.id, blob.c, blob.n, entry.n, blob.id, entry.xs + (j - 1), entry.y)]

\* The rows of one blob of a known shape; the Tier-2 test comes first.
ExpandBlob(blob) ==
    IF isV2(blob)
    THEN Concat([r \in 1..Len(blob.seq) |-> ExpandRun(blob, blob.seq[r])])
    ELSE Concat([e \in 1..Len(blob.e) |-> ExpandEntry(blob, blob.e[e])])

\* The comparator of rows.sort at lines 238-247.
RowCmp(a, b) ==
    IF a.cityId - b.cityId # 0 THEN a.cityId - b.cityId
    ELSE IF a.countryId - b.countryId # 0 THEN a.countryId - b.countryId
    ELSE IF localeCompare(a.name, b.name) # 0 THEN localeCompare(a.name, b.name)
    ELSE IF a.coord.tileY - b.coord.tileY # 0 THEN a.coord.tileY - b.coord.tileY
    ELSE IF a.coord.tileX - b.coord.tileX # 0 THEN a.coord.tileX - b.coord.tileX
    ELSE IF Truthy(Minus(a.id, b.id)) THEN Minus(a.id, b.id)
    ELSE a.number - b.number

\* rows.sort(...) at line 238
SortRows(rs) ==
    StableSort(rs, [i \in 1..Len(rs), j \in 1..Len(rs) |-> RowCmp(rs[i], rs[j])])

\* throw new Error("Unknown compact blob shape"): the loop reaches a blob
\* that is neither shape.
expandCompactThrows(compact) ==
    \E i \in 1..Len(ArrOf(compact)) :
        ~isV2(ArrOf(compact)[i]) /\ ~isV1(ArrOf(compact)[i])

\* function expandCompact(compact), for documents on which it does not throw.
expandCompact(compact) ==
    LET arr == ArrOf(compact)
    IN  SortRows(Concat([b \in 1..Len(arr) |-> ExpandBlob(arr[b])]))

---------------------------------------------------------------------------
(* queryOneCompact.                                                        *)

\* The object a hit returns (lines 284-294, 302-312).
Hit(c, n, id, entryId, number, y, xs, xe, format) ==
    [cityId |-> c, name |-> n, countryId |-> id, id |-> entryId, number |-> number,
     y |-> y, xs |-> xs, xe |-> xe, format |-> format]

\* RunCovers without the upper bound q >= r.k on the strip index.
RunCoversUnbounded(blob, r, x) == ~(x < r.x0)

\* Whether the run r of a Tier-2 blob answers column x (lines 275-281).
RunCovers(blob, r, x) ==
    /\ ~(x < r.x0)
    /\ LET q == (x - r.x0) \div blob.s
       IN  /\ ~(q < 0 \/ q >= r.k)
           /\ x >= r.x0 + q * blob.s
           /\ x <= r.x0 + q * blob.s + (blob.s - 1)

\* QueryV2 answering with the first strip of the run, whichever strip
\* holds x.
QueryV2FirstStrip(blob, x, y) ==
    LET at == {r \in 1..Len(blob.seq) : RunCovers(blob, blob.seq[r], x)}
    IN  IF y # blob.y \/ at = {} THEN Null
        ELSE LET r == blob.seq[MinOf(at)]
             IN  Hit(blob.c, blob.n, blob.id, r.id0, r.n0, y,
                     r.x0, r.x0 + (blob.s - 1), "V2")

\* The Tier-2 branch for one blob: the first run that answers x.
QueryV2(blob, x, y) ==
    LET at == {r \in 1..Len(blob.seq) : RunCovers(blob, blob.seq[r], x)}
    IN  IF y # blob.y \/ at = {} THEN Null
        ELSE LET r == blob.seq[MinOf(at)]
                 q == (x - r.x0) \div blob.s
                 xs == r.x0 + q * blob.s
             IN  Hit(blob.c, blob.n, blob.id, Plus(r.id0, q), r.n0 + q, y,
                     xs, xs + (blob.s - 1), "V2")

\* The Tier-1 branch for one blob: the first entry on row y that holds x.
QueryV1(blob, x, y) ==
    LET at == {e \in 1..Len(blob.e) :
                 blob.e[e].y = y /\ x >= blob.e[e].xs /\ x <= blob.e[e].xe}
    IN  IF at = {} THEN Null
        ELSE LET e == blob.e[MinOf(at)]
             IN  Hit(blob.c, blob.n, blob.id, e.id, e.n, e.y, e.xs, e.xe, "V1")

\* One iteration of the loop over the blobs: a blob of neither shape falls
\* through both tests and the loop goes on (there is no else branch).
QueryBlob(blob, x, y) ==
    IF isV2(blob) THEN QueryV2(blob, x, y)
    ELSE IF isV1(blob) THEN QueryV1(blob, x, y)
    ELSE Null

\* function queryOneCompact(compact, x, y): the hit of the first blob that
\* has one, else null.
queryOneCompact(compact, x, y) ==
    LET arr == ArrOf(compact)
        at == {b \in 1..Len(arr) : QueryBlob(arr[b], x, y) # Null}
    IN  IF at = {} THEN Null ELSE QueryBlob(arr[MinOf(at)], x, y)

---------------------------------------------------------------------------
(* The single-file commands, as steps of one session on one input file:    *)
(* compress it, decompress the document, then query the document at a      *)
(* coordinate.                                                             *)

\* No compact document has been written yet.
NoPayload == [none |-> TRUE]

\* No query has been asked yet.
NoQuery == [asked |-> FALSE]

\* runWithLimit has not been called.
PoolIdle ==
    /\ items = 0
    /\ failing = {}
    /\ limit = 0
    /\ cursor = 0
    /\ spawned = 0
    /\ wpc = << >>
    /\ widx = << >>
    /\ calls = << >>
    /\ logged = {}
    /\ settled = FALSE

\* async function doCompressFile(input): the rows are encoded and the
\* payload is written.  The command passes the stride 4; compactFromRows
\* takes any stride, and the session's stride stands for it so that strips
\* of one or two columns already form progressions.  A TypeError inside
\* rowsToV1 ends the command before anything is written.
DoCompress ==
    /\ phase = "input"
    /\ IF rowsToV1Throws(rows)
       THEN /\ phase' = "failed"
            /\ UNCHANGED <<v1s, payload>>
       ELSE /\ v1s' = rowsToV1(rows)
            /\ payload' = LET compact == compactFromV1(rowsToV1(rows), stride)
                          IN  PayloadOf([i \in 1..Len(compact) |->
                                           BlobThroughJson(compact[i])])
            /\ phase' = "compressed"
    /\ UNCHANGED <<rows, stride, expanded, query>>
    /\ UNCHANGED poolVars

\* async function doDecompressFile(input): the document is expanded and the
\* rows are written; the error of expandCompact ends the command before
\* anything is written.
DoDecompress ==
    /\ phase = "compressed"
    /\ IF expandCompactThrows(payload)
       THEN /\ phase' = "failed"
            /\ UNCHANGED expanded
       ELSE /\ expanded' = expandCompact(payload)
            /\ phase' = "expanded"
    /\ UNCHANGED <<rows, stride, v1s, payload, query>>
    /\ UNCHANGED poolVars

\* async function doQueryFile(input, coordStr), asked once, after the
\* decompress command has run on the document.
DoQuery(x, y) ==
    /\ phase \in {"expanded", "failed"}
    /\ payload # NoPayload
    /\ query = NoQuery
    /\ query' = [asked |-> TRUE, x |-> x, y |-> y, hit |-> queryOneCompact(payload, x, y)]
    /\ UNCHANGED <<rows, stride, v1s, payload, expanded, phase>>
    /\ UNCHANGED poolVars

---------------------------------------------------------------------------
(* Sessions on record-sequence inputs: every short input file over a small *)
(* set of records, in every order, duplicates included.                    *)

\* The group keys (cityId, name, countryId) of the record-sequence inputs.
GroupKeys == {<<1, "A", 9>>, <<1, "Enfc", 9>>, <<1, "Enfd", 9>>, <<2, "A", 8>>}

\* The well-formed records of the record-sequence inputs; a place's number
\* is its id.
RowDomain ==
    {RawRow(id, g[1], g[2], id, g[3], x, y) :
        id \in 1..MaxId, g \in GroupKeys, x \in 0..MaxX, y \in 0..MaxSeqY}

\* Every input file of at most MaxRows records.
SeqInputs == UNION {[1..n -> RowDomain] : n \in 0..MaxRows}

\* The coordinates queried: every cell of the record domain, one column
\* beyond and one row beyond.
SeqCoords == (0..(MaxX + 1)) \X (0..(MaxSeqY + 1))

\* The session starts from an input file and a stride.
SessionOn(inputs) ==
    /\ rows \in inputs
    /\ stride \in 1..MaxStride
    /\ v1s = << >>
    /\ payload = NoPayload
    /\ expanded = << >>
    /\ query = NoQuery
    /\ phase = "input"
    /\ PoolIdle

Init == SessionOn(SeqInputs)

Next ==
    \/ DoCompress
    \/ DoDecompress
    \/ \E c \in SeqCoords : DoQuery(c[1], c[2])

Spec == Init /\ [][Next]_vars

---------------------------------------------------------------------------
(* Sessions on progression inputs: the input file holds two progressions   *)
(* of strips.  A strip is the w records of one place on w neighbouring     *)
(* columns of one row; a progression is k strips whose place id, number    *)
(* and first column advance by 1, 1 and w.  The first progression lies on  *)
(* row 0 in group (1, "A", 9); the second lies on any row, in that group   *)
(* or in group (1, "Enfc", 9), and may be empty.                           *)

\* The records of one strip.
StripRows(id, name, x0, w, y) == [j \in 1..w |-> RawRow(id, 1, name, id, 9, x0 + (j - 1), y)]

\* The records of one progression, strip after strip.
ProgressionRows(p) ==
    Concat([i \in 1..p.k |->
              StripRows(p.id0 + (i - 1), p.name, p.x0 + (i - 1) * p.w, p.w, p.y)])

FirstProgressions ==
    [id0 : 1..MaxId0, x0 : 0..MaxX0, k : 1..MaxK, w : 1..MaxWidth, y : {0}, name : {"A"}]

SecondProgressions ==
    [id0 : 1..MaxId0, x0 : 0..MaxX0, k : 0..MaxK, w : 1..MaxWidth, y : 0..MaxY,
     name : {"A", "Enfc"}]

RunInputs ==
    {ProgressionRows(p1) \o ProgressionRows(p2) :
        p1 \in FirstProgressions, p2 \in SecondProgressions}

\* The coordinates queried: every cell a strip can cover, one column beyond
\* and one row beyond.
RunCoords == (0..(MaxX0 + MaxK * MaxWidth)) \X (0..(MaxY + 1))

InitRuns == SessionOn(RunInputs)

NextRuns ==
    \/ DoCompress
    \/ DoDecompress
    \/ \E c \in RunCoords : DoQuery(c[1], c[2])

SpecRuns == InitRuns /\ [][NextRuns]_vars

---------------------------------------------------------------------------
(* Sessions on a compact document read from disk: the decompress and query *)
(* commands parse whatever JSON the file holds, so a blob may have neither *)
(* shape.                                                                  *)

\* The blobs a document of the model is made of: a Tier-1 blob, a Tier-2
\* blob, a second Tier-1 blob, and two objects that are neither (one
\* without any list, one whose list has another name).
SampleBlobs ==
    {V1Blob(1, "A", 9, <<V1Entry(1, 1, 0, 0, 1)>>),
     V2Blob(1, "Enfc", 9, 0, 2, <<V2Run(0, 2, 1, 1)>>),
     V1Blob(2, "A", 8, <<V1Entry(3, 3, 1, 2, 2), V1Entry(4, 4, 0, 3, 3)>>),
     [c |-> 1, n |-> "A", id |-> 9],
     [c |-> 2, n |-> "A", id |-> 8, entries |-> <<V1Entry(1, 1, 0, 0, 1)>>]}

\* The documents: one blob, or an array of at most MaxBlobs blobs.
DocInputs ==
    {[single |-> b] : b \in SampleBlobs}
        \cup {[array |-> bs] : bs \in UNION {[1..n -> SampleBlobs] : n \in 0..MaxBlobs}}

\* The coordinates queried on a document.
DocCoords == (0..4) \X (0..1)

\* The session starts from a document on disk; nothing was compressed.
InitDoc ==
    /\ rows = << >>
    /\ stride = 0
    /\ v1s = << >>
    /\ payload \in DocInputs
    /\ expanded = << >>
    /\ query = NoQuery
    /\ phase = "compressed"
    /\ PoolIdle

NextDoc ==
    \/ DoDecompress
    \/ \E c \in DocCoords : DoQuery(c[1], c[2])

SpecDoc == InitDoc /\ [][NextDoc]_vars

---------------------------------------------------------------------------
(* Sessions on input files whose JSON lines may lack a property: readJSONL *)
(* pushes JSON.parse(line) unchecked (line 89), so a row is whatever       *)
(* object the line held.                                                   *)

\* The row r as a line without "id" would give it.
RowWithoutId(r) ==
    [cityId |-> r.cityId, name |-> r.name, number |-> r.number,
     countryId |-> r.countryId, coord |-> r.coord]

\* The row r as a line without "coord" would give it.
RowWithoutCoord(r) ==
    [id |-> r.id, cityId |-> r.cityId, name |-> r.name, number |-> r.number,
     countryId |-> r.countryId]

\* Well-formed rows and rows lacking one property.
AnyRowDomain ==
    RowDomain \cup {RowWithoutId(r) : r \in RowDomain}
              \cup {RowWithoutCoord(r) : r \in RowDomain}

\* Every input file of at most MaxBadRows such rows.
AnyInputs == UNION {[1..n -> AnyRowDomain] : n \in 0..MaxBadRows}

InitAny == SessionOn(AnyInputs)

NextAny ==
    \/ DoCompress
    \/ DoDecompress
    \/ \E c \in SeqCoords : DoQuery(c[1], c[2])

SpecAny == InitAny /\ [][NextAny]_vars

---------------------------------------------------------------------------
(* runWithLimit(items, limit, fn).  JavaScript runs each piece of code to  *)
(* its next await without interruption: the spawn loop starts the workers  *)
(* one after the other, each running to its first await, and a worker is   *)
(* resumed, in any order, only after that loop has ended.                  *)

\* const n = Math.max(1, limit)
WorkerCount == IF limit > 1 THEN limit ELSE 1

\* TakeIndex with the increment lost, as when the cursor is read before an
\* await and written after it.
TakeIndexStale(i) == [idx |-> i, next |-> i]

\* const idx = i++: the index taken and the cursor left behind.
TakeIndex(i) == [idx |-> i, next |-> i + 1]

\* One pass of worker w from the head of its loop to its next await, or out
\* of the loop: it takes an index; past the end it breaks, else it calls fn
\* on the item and awaits the promise.
RunToAwait(w) ==
    LET t == TakeIndex(cursor)
    IN  /\ cursor' = t.next
        /\ IF t.idx >= items
           THEN /\ wpc' = [wpc EXCEPT ![w] = "done"]
                /\ UNCHANGED <<widx, calls>>
           ELSE /\ wpc' = [wpc EXCEPT ![w] = "awaiting"]
                /\ widx' = [widx EXCEPT ![w] = t.idx]
                /\ calls' = [calls EXCEPT ![t.idx] = @ + 1]

\* for (let k = 0; k < n; k++) workers.push(worker()): the next worker is
\* started and runs to its first await.
SpawnWorker ==
    /\ phase = "batch"
    /\ spawned < WorkerCount
    /\ spawned' = spawned + 1
    /\ RunToAwait(spawned + 1)
    /\ UNCHANGED <<items, failing, limit, logged, settled>>
    /\ UNCHANGED codecVars

\* The promise worker w awaits settles: a rejection is caught and logged
\* (lines 372-374), and in either case the worker goes round its loop.
ResumeWorker(w) ==
    /\ phase = "batch"
    /\ spawned = WorkerCount
    /\ wpc[w] = "awaiting"
    /\ logged' = IF widx[w] \in failing THEN logged \cup {widx[w]} ELSE logged
    /\ RunToAwait(w)
    /\ UNCHANGED <<items, failing, limit, spawned, settled>>
    /\ UNCHANGED codecVars

\* await Promise.all(workers) resolves once every worker has returned.
SettleAll ==
    /\ phase = "batch"
    /\ spawned = WorkerCount
    /\ \A w \in 1..WorkerCount : wpc[w] = "done"
    /\ ~settled
    /\ settled' = TRUE
    /\ UNCHANGED <<items, failing, limit, cursor, spawned, wpc, widx, calls, logged>>
    /\ UNCHANGED codecVars

\* runWithLimit is called with a batch, a limit and a per-file function
\* that rejects on the items of failing.
InitPool ==
    /\ rows = << >>
    /\ stride = 0
    /\ v1s = << >>
    /\ payload = NoPayload
    /\ expanded = << >>
    /\ query = NoQuery
    /\ phase = "batch"
    /\ items \in 0..MaxItems
    /\ failing \in SUBSET (0..(items - 1))
    /\ limit \in 0..MaxLimit
    /\ cursor = 0
    /\ spawned = 0
    /\ wpc = [w \in 1..WorkerCount |-> "idle"]
    /\ widx = [w \in 1..WorkerCount |-> 0]
    /\ calls = [idx \in 0..(items - 1) |-> 0]
    /\ logged = {}
    /\ settled = FALSE

NextPool ==
    \/ SpawnWorker
    \/ \E w \in 1..WorkerCount : ResumeWorker(w)
    \/ SettleAll

SpecPool == InitPool /\ [][NextPool]_vars

---------------------------------------------------------------------------
(* Vocabulary of the properties.                                           *)

\* The blobs of the document on disk, in document order.
Blobs == ArrOf(payload)

\* No record occurs twice in rs.
NoDuplicates(rs) == \A i, j \in 1..Len(rs) : i < j => rs[i] # rs[j]

\* How often the record r occurs in rs.
CountIn(rs, r) == Cardinality({i \in 1..Len(rs) : rs[i] = r})

\* a and b hold the same records, each as often.
SameRecords(a, b) ==
    /\ Len(a) = Len(b)
    /\ \A i \in 1..Len(a) : CountIn(a, a[i]) = CountIn(b, a[i])

\* The canonical sort key (cityId, countryId, name, tileY, tileX, id, number),
\* the name taken by its place in the collation.
CanonKey(r) ==
    <<r.cityId, r.countryId, CollationKey(r.name), r.coord.tileY, r.coord.tileX,
      r.id, r.number>>

\* Lexicographic order of two integer tuples of one length.
LexLE(a, b) ==
    \/ a = b
    \/ \E k \in 1..Len(a) : a[k] < b[k] /\ \A j \in 1..(k - 1) : a[j] = b[j]

\* rs is in canonical order.
CanonicallyOrdered(rs) ==
    \A i \in 1..(Len(rs) - 1) : LexLE(CanonKey(rs[i]), CanonKey(rs[i + 1]))

\* The entry e covers the cell (x, y).
Covers(e, x, y) == e.y = y /\ e.xs <= x /\ x <= e.xe

\* The entries of a group are on one row and each is s columns wide.
Uniform(g, s) ==
    /\ \A i, j \in 1..Len(g.e) : g.e[i].y = g.e[j].y
    /\ \A i \in 1..Len(g.e) : g.e[i].xe - g.e[i].xs + 1 = s

\* The positions of the xs-ordered entries of g at which a new run starts:
\* the first, and every one that does not continue its predecessor by
\* (s, 1, 1) in (xs, id, number).
RunStarts(g, s) ==
    LET es == SortByXs(g.e)
    IN  {i \in 1..Len(es) :
            \/ i = 1
            \/ es[i].xs # es[i - 1].xs + s
            \/ es[i].id # es[i - 1].id + 1
            \/ es[i].n # es[i - 1].n + 1}

\* The number of progression runs of a group.
RunCount(g, s) == Cardinality(RunStarts(g, s))

\* The entries a list of runs stands for, run after run.
EntriesOfRuns(b) ==
    Concat([r \in 1..Len(b.seq) |->
              [i \in 1..b.seq[r].k |->
                 V1Entry(b.seq[r].id0 + (i - 1), b.seq[r].n0 + (i - 1), b.y,
                         b.seq[r].x0 + (i - 1) * b.s,
                         b.seq[r].x0 + (i - 1) * b.s + b.s - 1)]])

---------------------------------------------------------------------------
(* C1.  Round trip.                                                        *)

\* C1: for an input file without duplicate records, the records written by
\* decompressing the compressed document are exactly the input records,
\* none lost, added or altered, in canonical order (cityId, countryId, name,
\* tileY, tileX, id, number).
C1_RoundTrip ==
    (phase = "expanded" /\ NoDuplicates(rows)) =>
        /\ SameRecords(expanded, rows)
        /\ CanonicallyOrdered(expanded)

\* C1 witness: a duplicate-free input of two groups has been compressed to
\* a document that mixes a Tier-2 blob holding a run of two strips with a
\* Tier-1 blob of two entries, and has been decompressed.
C1_Witness ==
    /\ phase = "expanded"
    /\ NoDuplicates(rows)
    /\ \E i \in 1..Len(Blobs) : isV2(Blobs[i]) /\ Blobs[i].seq[1].k = 2
    /\ \E i \in 1..Len(Blobs) : isV1(Blobs[i]) /\ Len(Blobs[i].e) = 2

\* C1 witness of a Tier-2 blob of two runs: a duplicate-free input of one
\* group, compressed to two runs of two strips each, has been decompressed.
C1_WitnessTwoRuns ==
    /\ phase = "expanded"
    /\ NoDuplicates(rows)
    /\ \E i \in 1..Len(Blobs) :
          isV2(Blobs[i]) /\ Len(Blobs[i].seq) = 2 /\ Len(expanded) = 4 * stride

---------------------------------------------------------------------------
(* C2.  Query/decode agreement.                                            *)

\* C2: a query at (x, y) hits exactly when some decoded record lies on
\* (x, y), and the (id, number) of the hit is the (id, number) of a decoded
\* record on (x, y).
C2_QueryAgreesWithDecode ==
    (phase = "expanded" /\ query.asked) =>
        LET at == {i \in 1..Len(expanded) :
                     /\ expanded[i].coord.tileX = query.x
                     /\ expanded[i].coord.tileY = query.y}
        IN  IF at = {} THEN query.hit = Null
            ELSE /\ query.hit # Null
                 /\ \E i \in at : /\ expanded[i].id = query.hit.id
                                  /\ expanded[i].number = query.hit.number

\* C2 witness: a query was answered from a later strip of a Tier-2 run.
C2_Witness ==
    /\ phase = "expanded"
    /\ query.asked
    /\ query.hit # Null
    /\ query.hit.format = "V2"
    /\ \E i \in 1..Len(Blobs) :
          /\ isV2(Blobs[i])
          /\ \E r \in 1..Len(Blobs[i].seq) :
                Blobs[i].seq[r].k >= 2 /\ query.hit.id = Blobs[i].seq[r].id0 + 1

\* C2 witness of the miss: a query at a cell no record covers, on a row
\* that holds records, returned null.
C2_WitnessMiss ==
    /\ phase = "expanded"
    /\ query.asked
    /\ query.hit = Null
    /\ \E i \in 1..Len(expanded) : expanded[i].coord.tileY = query.y

---------------------------------------------------------------------------
(* C3.  Input-order independence of the encoding.                          *)

\* The sequence rs reordered by the permutation p of its indexes.
Shuffled(rs, p) == [i \in 1..Len(rs) |-> rs[p[i]]]

\* C3: every reordering of the input file compresses to the document the
\* file itself compressed to.
C3_OrderIndependent ==
    phase = "compressed" =>
        \A p \in Permutations(1..Len(rows)) :
            PayloadOf(compactFromRows(Shuffled(rows, p), stride)) = payload

---------------------------------------------------------------------------
(* C4.  Tier-2 acceptance.                                                 *)

\* C4 as stated: every group whose entries are on one row and stride wide,
\* and whose run count is more than half its entry count, is emitted as
\* its Tier-1 blob.
C4_MoreThanHalfIsTier1 ==
    phase = "compressed" =>
        \A i \in 1..Len(v1s) :
            (Uniform(v1s[i], stride) /\ RunCount(v1s[i], stride) * 2 > Len(v1s[i].e))
                => Blobs[i] = v1s[i]

\* C4 amended: such a group is emitted as its Tier-1 blob when it has at
\* least two runs, and as a Tier-2 blob of one run when it has one run
\* (which, with more runs than half the entries, is a group of one entry).
C4_MoreThanHalfIsTier1UnlessOneRun ==
    phase = "compressed" =>
        \A i \in 1..Len(v1s) :
            (Uniform(v1s[i], stride) /\ RunCount(v1s[i], stride) * 2 > Len(v1s[i].e))
                => IF RunCount(v1s[i], stride) >= 2
                   THEN Blobs[i] = v1s[i]
                   ELSE /\ isV2(Blobs[i])
                        /\ Len(Blobs[i].seq) = 1
                        /\ Len(v1s[i].e) = 1

\* C4 witness: a group of three stride-wide entries on one row, in two
\* runs, was kept in Tier 1.
C4_Witness ==
    /\ phase = "compressed"
    /\ \E i \in 1..Len(v1s) :
          /\ Uniform(v1s[i], stride)
          /\ Len(v1s[i].e) = 3
          /\ RunCount(v1s[i], stride) = 2
          /\ isV1(Blobs[i])

\* C4 witness of the one-run case: a group of one stride-wide entry was
\* emitted in Tier 2.
C4_WitnessOneEntry ==
    /\ phase = "compressed"
    /\ \E i \in 1..Len(v1s) :
          /\ Uniform(v1s[i], stride)
          /\ Len(v1s[i].e) = 1
          /\ isV2(Blobs[i])

---------------------------------------------------------------------------
(* C5.  The Progression Compactor is all-or-nothing.                       *)

\* C5: a group (never empty) whose entries differ in row or are not all
\* stride wide stays the Tier-1 blob.  Any other group becomes a Tier-2
\* blob exactly when its run count is 1 or at most half its entry count,
\* and then the blob carries the row and the stride, its runs are maximal,
\* and they stand for the xs-ordered entries of the group, each once.
C5_AllOrNothing ==
    phase = "compressed" =>
        \A i \in 1..Len(v1s) :
            LET g == v1s[i]
                b == Blobs[i]
                rc == RunCount(g, stride)
            IN  /\ Len(g.e) > 0
                /\ ~isV2(b) => b = g
                /\ ~Uniform(g, stride) => ~isV2(b)
                /\ Uniform(g, stride) => (isV2(b) <=> (rc = 1 \/ 2 * rc <= Len(g.e)))
                /\ isV2(b) =>
                      /\ <<b.c, b.n, b.id, b.y, b.s>> = <<g.c, g.n, g.id, g.e[1].y, stride>>
                      /\ Len(b.seq) = rc
                      /\ EntriesOfRuns(b) = SortByXs(g.e)
                      /\ \A r \in 1..(Len(b.seq) - 1) :
                            ~(/\ b.seq[r + 1].x0 = b.seq[r].x0 + b.seq[r].k * stride
                              /\ b.seq[r + 1].id0 = b.seq[r].id0 + b.seq[r].k
                              /\ b.seq[r + 1].n0 = b.seq[r].n0 + b.seq[r].k)

\* C5 witness: a group of four stride-wide entries on one row in two runs
\* has become a Tier-2 blob.
C5_Witness ==
    /\ phase = "compressed"
    /\ \E i \in 1..Len(v1s) :
          /\ Len(v1s[i].e) = 4
          /\ isV2(Blobs[i])
          /\ Len(Blobs[i].seq) = 2

\* C5 witness of the refusals: one document holds a group whose entries
\* lie on two rows and a group with an entry that is not stride wide, both
\* left in Tier 1.
C5_WitnessNull ==
    /\ phase = "compressed"
    /\ \E i \in 1..Len(v1s) :
          /\ \E j \in 1..Len(v1s[i].e) : v1s[i].e[j].y # v1s[i].e[1].y
          /\ isV1(Blobs[i])
    /\ \E i \in 1..Len(v1s) :
          /\ \E j \in 1..Len(v1s[i].e) : v1s[i].e[j].xe - v1s[i].e[j].xs + 1 # stride
          /\ isV1(Blobs[i])

---------------------------------------------------------------------------
(* C8.  Duplicate input records.                                           *)

\* The input file with every repeated record dropped, first occurrences
\* kept in place.
Deduplicated(rs) == InsertionOrder(rs)

\* C8: the Interval Builder yields for the input file the blobs it yields
\* for the deduplicated file, the entries of one (id, number, y) in a group
\* are pairwise disjoint, and decoding writes no record twice.
C8_DuplicatesCollapse ==
    /\ phase \in {"compressed", "expanded"} =>
          /\ v1s = rowsToV1(Deduplicated(rows))
          /\ \A g \in 1..Len(v1s) : \A i, j \in 1..Len(v1s[g].e) :
                LET a == v1s[g].e[i]
                    b == v1s[g].e[j]
                IN  (i < j /\ <<a.id, a.n, a.y>> = <<b.id, b.n, b.y>>)
                        => (a.xe < b.xs \/ b.xe < a.xs)
    /\ phase = "expanded" => NoDuplicates(expanded)

---------------------------------------------------------------------------
(* C10.  The point query and the tier.                                     *)

\* Two query results agree: both null, or hits of one id, number, xs, xe.
SameAnswer(h1, h2) ==
    IF h1 = Null \/ h2 = Null THEN h1 = h2
    ELSE <<h1.id, h1.number, h1.xs, h1.xe>> = <<h2.id, h2.number, h2.xs, h2.xe>>

\* C10 as stated: for every group emitted in Tier 2, the query at the
\* asked coordinate answers the same on the group's Tier-1 blob and on its
\* Tier-2 blob.
C10_QueryIgnoresTier ==
    query.asked =>
        \A i \in 1..Len(v1s) :
            isV2(Blobs[i]) =>
                SameAnswer(queryOneCompact([single |-> v1s[i]], query.x, query.y),
                           queryOneCompact([single |-> Blobs[i]], query.x, query.y))

\* C10 amended: on the two blobs the query is a miss on both or a hit on
\* both, and the two hits have one id, number, xs and xe whenever exactly
\* one entry of the group covers the coordinate.
C10_QueryIgnoresTierWhereUnambiguous ==
    query.asked =>
        \A i \in 1..Len(v1s) :
            isV2(Blobs[i]) =>
                LET h1 == queryOneCompact([single |-> v1s[i]], query.x, query.y)
                    h2 == queryOneCompact([single |-> Blobs[i]], query.x, query.y)
                    on == {j \in 1..Len(v1s[i].e) : Covers(v1s[i].e[j], query.x, query.y)}
                IN  /\ (h1 = Null) <=> (h2 = Null)
                    /\ Cardinality(on) = 1 => SameAnswer(h1, h2)

\* C10 witness: the query hit a cell that one entry covers, in the second
\* run of a group emitted in Tier 2.
C10_Witness ==
    /\ query.asked
    /\ \E i \in 1..Len(v1s) :
          /\ isV2(Blobs[i])
          /\ Len(Blobs[i].seq) = 2
          /\ Cardinality({j \in 1..Len(v1s[i].e) :
                            Covers(v1s[i].e[j], query.x, query.y)}) = 1
          /\ query.x >= Blobs[i].seq[2].x0
          /\ queryOneCompact([single |-> Blobs[i]], query.x, query.y) # Null

---------------------------------------------------------------------------
(* C6.  Batch dispatch.                                                    *)

\* C6: fn is never called twice on an item; two workers never await the
\* same item; a worker leaves its loop only when every item has been handed
\* to fn, whatever failed before; and once runWithLimit has completed, fn
\* was called exactly once on every item and every failure was caught.
C6_ExactlyOnce ==
    /\ \A idx \in 0..(items - 1) : calls[idx] <= 1
    /\ \A w1, w2 \in 1..WorkerCount :
          (w1 # w2 /\ wpc[w1] = "awaiting" /\ wpc[w2] = "awaiting") => widx[w1] # widx[w2]
    /\ \A w \in 1..WorkerCount :
          wpc[w] = "done" => \A idx \in 0..(items - 1) : calls[idx] = 1
    /\ settled =>
          /\ \A idx \in 0..(items - 1) : calls[idx] = 1
          /\ logged = failing

\* C6 witness: a batch of three items run by two workers has completed,
\* and fn failed on the first item.
C6_Witness ==
    /\ phase = "batch"
    /\ settled
    /\ items = 3
    /\ WorkerCount = 2
    /\ 0 \in failing
    /\ \A idx \in 0..(items - 1) : calls[idx] = 1

---------------------------------------------------------------------------
(* C7.  Unknown blob shape.                                                *)

\* The document holds a blob with neither the entry list nor the run list.
HasUnknownShape(doc) ==
    \E i \in 1..Len(ArrOf(doc)) :
        "e" \notin DOMAIN ArrOf(doc)[i] /\ "seq" \notin DOMAIN ArrOf(doc)[i]

\* C7: on a document that holds a blob of unknown shape neither the
\* decompress command nor the query command returns a result: each ends
\* in an error.
C7_UnknownShapeIsFatal ==
    (payload # NoPayload /\ HasUnknownShape(payload)) =>
        /\ phase # "expanded"
        /\ ~query.asked

---------------------------------------------------------------------------
(* C9.  Malformed input.                                                   *)

\* The row lacks a required property.
Malformed(r) == "id" \notin DOMAIN r \/ "coord" \notin DOMAIN r

\* C9: once the compress command has run on an input file that holds a
\* malformed row, it has ended in an error and has produced no group, blob
\* or document.
C9_MalformedFailsFast ==
    (phase # "input" /\ \E i \in 1..Len(rows) : Malformed(rows[i])) =>
        /\ phase = "failed"
        /\ v1s = << >>
        /\ payload = NoPayload

=============================================================================
